---------------------------- MODULE Spec2Model ----------------------------
(***************************************************************************)
(* A model of the session-and-transport subsystem of whatsandra:           *)
(*   - WebSocketHandler (src/src/websocket.rs): the queue handle `tx`,     *)
(*     the `connected` flag, the event callback, and per connect() call    *)
(*     one connection thread (run_websocket), one reader thread and one    *)
(*     writer thread, joined by two bounded mpsc channels;                 *)
(*   - Client (src/src/client.rs): auth_state, the device store, and the   *)
(*     operations connect, generate_qr_code, send_message, logout and      *)
(*     disconnect, run by application threads;                             *)
(*   - Client (src/src/lib.rs): its observers, connect, disconnect and     *)
(*     dispatch_event.                                                     *)
(* Every connect() call creates a new generation g of channel and threads. *)
(***************************************************************************)
EXTENDS Naturals, Sequences, FiniteSets

(* ------------------------------ bounds --------------------------------- *)
\* frames enqueued through WebSocketHandler::send in one behaviour
MaxSends == 3
\* Ping frames the peer delivers on one connection
MaxPings == 1
\* capacity of the two mpsc channels (websocket.rs:77 and :124 use 100)
ChanCap == 2

\* observers registered with one Client
MaxObservers == 2

\* events one lib.rs Client dispatches
MaxEvents == 3

\* constructions of the Client on one store path
MaxConstructions == 2

(* ------------------------------ universe ------------------------------- *)
Threads == {"t1", "t2"}
MainThread == "t1"
NoThread == "none"
\* the generations: one per connect() call
Gens == {1, 2}
\* tx holding None
NoGen == 0

VARIABLES
    tx,          \* WebSocketHandler.tx: NoGen (None) or the generation whose Sender it holds
    txLock,      \* holder of the Mutex around tx: NoThread or an application thread
    connected,   \* WebSocketHandler.connected
    cbLock,      \* holder of the Mutex around event_callback: NoGen or the generation
                 \* whose connection thread holds it across lines 88-92
    events,      \* the calls made to event_callback, in order: <<g, event>>
    connPc,      \* position of generation g's connection thread (connect's closure)
    readerPc,    \* position of generation g's reader thread
    writerPc,    \* position of generation g's writer thread
    inQ,         \* channel (sender, receiver) of generation g: frames sent, not yet drained
    hand,        \* the message run_websocket's drain loop took and has not yet forwarded
    wsQ,         \* channel (tx_ws, rx_ws) of generation g
    wire,        \* the frames generation g's writer transmitted on the socket, in order
    nPing,         \* Ping frames generation g's reader has received
    ngen,        \* connect() calls made so far
    auth_state,  \* Client.auth_state: FALSE is None, TRUE is Some(AuthState)
    store,       \* DeviceStore.data: the keys it holds
    disk,        \* the store file's keys as last written
    pc,          \* position of each application thread
    ret,         \* each application thread's current or last call and its result
    nextSeq,     \* number the next frame enqueued by send is tagged with (enqueue order)
    logged_out,  \* history: logout has run and generate_qr_code has not run since
    socket,      \* generation g's socket: "none" before the attempt, then "open" or "failed"
    device_id,   \* Client.device_id
    event_handlers,  \* Client.event_handlers (client.rs): the observers, in registration order
    early_handlers,  \* history: number of observers registered before any connect() call
    constructions,   \* Client::new calls made on the store path so far
    nminted,     \* device ids minted so far on the store path
    lib_event_handlers,  \* lib.rs Client.event_handlers, in registration order: what
                         \* each observer does when invoked ("returns" or "panics")
    lib_connected,       \* lib.rs Client.connected
    lib_poisoned,        \* the Mutex around lib.rs Client.event_handlers is poisoned
    lib_pc,              \* the thread calling into the lib.rs Client: "idle", "dispatch" or "deadlock"
    lib_event,           \* the event dispatch_event is delivering ("none" outside a dispatch)
    lib_pos,             \* index of the handler dispatch_event invokes next
    lib_raised,          \* the events dispatch_event was called with, in order
    lib_calls,           \* the invocations of observers: <<number of the dispatch_event
                         \* call, index of the handler, event>>, in order
    lockOwner,   \* the WebSocketHandler's three Mutexes at the grain of single lock()
                 \* calls: the thread holding each, or NoThread
    lockPc       \* the routine each such thread is in and the lock operation it is at

vars == <<tx, txLock, connected, cbLock, events, connPc, readerPc, writerPc, inQ, hand,
          wsQ, wire, nPing, ngen, auth_state, store, disk, pc, ret, nextSeq, logged_out,
          socket, device_id, event_handlers, early_handlers, constructions, nminted,
          lib_event_handlers, lib_connected, lib_poisoned, lib_pc, lib_event, lib_pos,
          lib_raised, lib_calls, lockOwner, lockPc>>

handlerVars == <<tx, txLock, connected>>
chanVars == <<inQ, hand, wsQ, wire, nPing>>
bgVars == <<cbLock, events, connPc, readerPc, writerPc, socket>>
\* the lib.rs Client
libVars == <<lib_event_handlers, lib_connected, lib_poisoned, lib_pc, lib_event, lib_pos,
             lib_raised, lib_calls>>
\* the identity and the observers of the client.rs Client
identVars == <<device_id, event_handlers, early_handlers, constructions, nminted>>
\* the WebSocketHandler's Mutexes, lock() call by lock() call
lockVars == <<lockOwner, lockPc>>
clientVars == <<auth_state, store, disk, logged_out, identVars, libVars, lockVars>>

(* ------------------ the Mutexes of the WebSocketHandler ---------------- *)
\* struct WebSocketHandler: tx, connected and event_callback are each behind
\* a Mutex
Locks == {"tx", "connected", "event_callback"}
\* the connection threads connect spawns and the reader threads they spawn
ConnThreads == {"conn1", "conn2"}
ReaderThreads == {"reader1", "reader2"}
\* the threads that lock the handler's Mutexes: the callers of its operations,
\* the connection threads and the reader threads
LockThreads == Threads \cup ConnThreads \cup ReaderThreads
\* a thread outside every routine that locks
NotLocking == [routine |-> "none", at |-> 0]

(* ------------------------------ frames --------------------------------- *)
\* enum WebSocketMessage; `seq` tags the frame with its place in the enqueue order
\* (0 for the reader's automatic Pong, which no send call enqueued)
FrameKinds == {"Text", "Binary", "Ping", "Pong", "Close"}
NoFrame == [kind |-> "None", body |-> "none", seq |-> 0]
WebSocketMessage(kind, seq) ==
    [kind |-> kind, body |-> IF kind \in {"Text", "Binary"} THEN "payload" ELSE "none", seq |-> seq]

\* impl Into<OwnedMessage> for WebSocketMessage: payload kept for Text/Binary,
\* an empty vector for Ping/Pong, None for Close
IntoOwned(m) ==
    [kind |-> m.kind,
     body |-> CASE m.kind \in {"Text", "Binary"} -> m.body
                [] m.kind \in {"Ping", "Pong"} -> "empty"
                [] OTHER -> "none",
     seq |-> m.seq]

\* OwnedMessage::Pong(vec![]) as the reader enqueues it
AutoPong == [kind |-> "Pong", body |-> "empty", seq |-> 0]

\* the frames the application passes to WebSocketHandler::send itself
SendKinds == {"Binary"}

\* what recv_message can yield: a frame of the peer's, or an error
InboundKinds == FrameKinds \cup {"Error"}

(* --------------------------- channel state ----------------------------- *)
\* the Receiver of generation g's channel lives while run_websocket runs
ReceiverAlive(g) == connPc[g] \in {"start", "cb_connected", "drain", "forward"}
\* the Sender of generation g's channel lives only in the handler's tx
SenderAlive(g) == tx = g
\* rx_ws lives while the writer thread runs
RxWsAlive(g) == writerPc[g] = "run"
\* tx_ws lives in run_websocket, its clone in the reader's closure
TxWsAlive(g) == connPc[g] \in {"drain", "forward"} \/ readerPc[g] \in {"recv", "pong", "cb"}

\* a call of an application thread: the operation, its result ("pending" while
\* it runs), the value it yields (connect: the generation it created;
\* generate_qr_code: the length of the token) and the frame it passes to send
Call(op, res, val, kind) == [op |-> op, res |-> res, val |-> val, kind |-> kind]
NoCall == Call("none", "none", 0, "none")

\* number of times event e of generation g was raised
EventCount(g, e) == Cardinality({i \in 1..Len(events) : events[i] = <<g, e>>})

(* ---------------------- DeviceStore (client.rs 40-104) ------------------ *)
\* the keys the Client uses, in the order the file lists them
StoreKeys == <<"credentials", "device_id">>
\* Option<String>::None of DeviceStore::get
NoValue == 0
\* the store path holds no file; a file holds the text last written
NoFile == [exists |-> FALSE, content |-> <<>>]
File(content) == [exists |-> TRUE, content |-> content]

\* DeviceStore::get (69-71)
Get(data, key) ==
    IF \E p \in data : p[1] = key THEN (CHOOSE p \in data : p[1] = key)[2] ELSE NoValue
\* Remove keeping the key's entry and dropping the others
RemoveOthers(data, key) == {p \in data : p[1] = key}
\* data.insert (line 77) and data.remove (line 87)
Insert(data, key, value) == {p \in data : p[1] # key} \cup {<<key, value>>}
Remove(data, key) == {p \in data : p[1] # key}

\* serde_json::to_string (line 96): the map written as the list of its members
RECURSIVE Members(_, _)
Members(data, keys) ==
    IF keys = <<>> THEN <<>>
    ELSE (IF Get(data, Head(keys)) = NoValue
          THEN <<>>
          ELSE << <<Head(keys), Get(data, Head(keys))>> >>) \o Members(data, Tail(keys))
ToString(data) == Members(data, StoreKeys)
\* serde_json::from_str (line 51): the map of the members the text lists
FromStr(content) == {content[i] : i \in 1..Len(content)}

\* DeviceStore::new (47-66): the data of the file at the path, or an empty map
DeviceStoreNew(file) == IF file.exists THEN FromStr(file.content) ELSE {}

\* Client::new, lines 141-150, on the store file `file` with `minted` ids
\* minted before: the device id is the stored one, or else a fresh random one
\* (the next never minted before), which store.set inserts and saves; a failed
\* save is logged only (`saved` false)
HasDeviceId(file) == Get(DeviceStoreNew(file), "device_id") # NoValue
NewDeviceId(file, minted) ==
    IF HasDeviceId(file) THEN Get(DeviceStoreNew(file), "device_id") ELSE minted + 1
NewStore(file, minted) ==
    IF HasDeviceId(file) THEN DeviceStoreNew(file)
    ELSE Insert(DeviceStoreNew(file), "device_id", NewDeviceId(file, minted))
NewDisk(file, minted, saved) ==
    IF HasDeviceId(file) \/ ~saved THEN file ELSE File(ToString(NewStore(file, minted)))
NewMinted(file, minted) == IF HasDeviceId(file) THEN minted ELSE minted + 1

(* ------------------------------- Init ---------------------------------- *)
\* Client::new (client.rs) on the store file `file`: auth_state is None, no
\* observer is registered, the handler holds no sender and is not connected;
\* and Client::new (lib.rs): no observer, not connected
InitWith(file, minted, saved) ==
    /\ auth_state = FALSE
    /\ device_id = NewDeviceId(file, minted)
    /\ store = NewStore(file, minted)
    /\ disk = NewDisk(file, minted, saved)
    /\ nminted = NewMinted(file, minted)
    /\ constructions = 1
    /\ event_handlers = <<>>
    /\ early_handlers = 0
    /\ logged_out = FALSE
    /\ lib_event_handlers = <<>>
    /\ lib_connected = FALSE
    /\ lib_poisoned = FALSE
    /\ lib_pc = "idle"
    /\ lib_event = "none"
    /\ lib_pos = 0
    /\ lib_raised = <<>>
    /\ lib_calls = <<>>
    /\ lockOwner = [l \in Locks |-> NoThread]
    /\ lockPc = [th \in LockThreads |-> NotLocking]
    /\ tx = NoGen
    /\ txLock = NoThread
    /\ connected = FALSE
    /\ cbLock = NoGen
    /\ events = <<>>
    /\ connPc = [g \in Gens |-> "unborn"]
    /\ readerPc = [g \in Gens |-> "unborn"]
    /\ writerPc = [g \in Gens |-> "unborn"]
    /\ socket = [g \in Gens |-> "none"]
    /\ inQ = [g \in Gens |-> <<>>]
    /\ hand = [g \in Gens |-> NoFrame]
    /\ wsQ = [g \in Gens |-> <<>>]
    /\ wire = [g \in Gens |-> <<>>]
    /\ nPing = [g \in Gens |-> 0]
    /\ ngen = 0
    /\ pc = [t \in Threads |-> "idle"]
    /\ ret = [t \in Threads |-> NoCall]
    /\ nextSeq = 1

\* the first construction on a fresh store path, the device id saved
Init == InitWith(NoFile, 0, TRUE)

(* ------------------- WebSocketHandler::connect (70-97) ------------------ *)
\* a new channel is created, its Sender stored in tx (dropping the Sender held
\* before), and the connection thread spawned; connect itself returns Ok(())
Connect(t) ==
    /\ pc[t] = "idle"
    /\ ngen + 1 \in Gens
    /\ txLock = NoThread
    /\ ngen' = ngen + 1
    /\ tx' = ngen + 1
    /\ connPc' = [connPc EXCEPT ![ngen + 1] = "start"]
    /\ ret' = [ret EXCEPT ![t] = Call("connect", "Ok", ngen + 1, "none")]
    /\ UNCHANGED <<txLock, connected, cbLock, events, readerPc, writerPc, socket, pc, nextSeq>>
    /\ UNCHANGED <<chanVars, clientVars>>

(* ------------- the connection thread: run_websocket (100-212) ----------- *)
\* ConnEstablish with connected set before the outcome of the attempt is known
ConnEstablishEager(g) ==
    /\ connPc[g] = "start"
    /\ connected' = TRUE
    /\ \E ok \in BOOLEAN :
        IF ok
        THEN /\ connPc' = [connPc EXCEPT ![g] = "cb_connected"]
             /\ socket' = [socket EXCEPT ![g] = "open"]
             /\ UNCHANGED inQ
        ELSE /\ connPc' = [connPc EXCEPT ![g] = "err_cb"]
             /\ socket' = [socket EXCEPT ![g] = "failed"]
             /\ inQ' = [inQ EXCEPT ![g] = <<>>]
    /\ UNCHANGED <<tx, txLock, cbLock, events, readerPc, writerPc, hand, wsQ, wire, nPing,
                   ngen, pc, ret, nextSeq>>
    /\ UNCHANGED clientVars

\* lines 107-116: the socket is established and connected set, or the attempt
\* fails and run_websocket returns Err, dropping the Receiver
ConnEstablish(g) ==
    /\ connPc[g] = "start"
    /\ \E ok \in BOOLEAN :
        IF ok
        THEN /\ connected' = TRUE
             /\ connPc' = [connPc EXCEPT ![g] = "cb_connected"]
             /\ socket' = [socket EXCEPT ![g] = "open"]
             /\ UNCHANGED inQ
        ELSE /\ connPc' = [connPc EXCEPT ![g] = "err_cb"]
             /\ socket' = [socket EXCEPT ![g] = "failed"]
             /\ inQ' = [inQ EXCEPT ![g] = <<>>]
             /\ UNCHANGED connected
    /\ UNCHANGED <<tx, txLock, cbLock, events, readerPc, writerPc, hand, wsQ, wire, nPing,
                   ngen, pc, ret, nextSeq>>
    /\ UNCHANGED clientVars

\* lines 119-196: callback(Event::Connected) under the callback lock, then the
\* (tx_ws, rx_ws) channel and the reader and writer threads are created, then
\* the runtime of the drain loop. When Runtime::new fails (195-196)
\* run_websocket returns Err, dropping the Receiver and tx_ws, with the reader
\* and the writer running.
ConnNotify(g) ==
    /\ connPc[g] = "cb_connected"
    /\ cbLock = NoGen
    /\ events' = Append(events, <<g, "Connected">>)
    /\ readerPc' = [readerPc EXCEPT ![g] = "recv"]
    /\ writerPc' = [writerPc EXCEPT ![g] = "run"]
    /\ \E runtime \in BOOLEAN :
        IF runtime
        THEN /\ connPc' = [connPc EXCEPT ![g] = "drain"]
             /\ UNCHANGED inQ
        ELSE /\ connPc' = [connPc EXCEPT ![g] = "err_cb"]
             /\ inQ' = [inQ EXCEPT ![g] = <<>>]
    /\ UNCHANGED <<handlerVars, cbLock, hand, wsQ, wire, nPing, socket, ngen, pc, ret, nextSeq,
                   clientVars>>

\* lines 199-201: receiver.recv() yields the oldest frame, converted to an
\* OwnedMessage; it yields None once the Sender is dropped and the channel is
\* empty, and run_websocket returns Ok(())
DrainRecv(g) ==
    /\ connPc[g] = "drain"
    /\ IF inQ[g] # <<>>
       THEN /\ hand' = [hand EXCEPT ![g] = IntoOwned(Head(inQ[g]))]
            /\ inQ' = [inQ EXCEPT ![g] = Tail(inQ[g])]
            /\ connPc' = [connPc EXCEPT ![g] = "forward"]
       ELSE /\ ~SenderAlive(g)
            /\ connPc' = [connPc EXCEPT ![g] = "ret_ok"]
            /\ UNCHANGED <<hand, inQ>>
    /\ UNCHANGED <<handlerVars, cbLock, events, readerPc, writerPc, wsQ, wire, nPing,
                   socket, ngen, pc, ret, nextSeq, clientVars>>

\* DrainForward with the frame put at the head of the writer's channel
DrainForwardAtHead(g) ==
    /\ connPc[g] = "forward"
    /\ IF ~RxWsAlive(g)
       THEN /\ connPc' = [connPc EXCEPT ![g] = "ret_ok"]
            /\ inQ' = [inQ EXCEPT ![g] = <<>>]
            /\ UNCHANGED wsQ
       ELSE /\ Len(wsQ[g]) < ChanCap
            /\ wsQ' = [wsQ EXCEPT ![g] = <<hand[g]>> \o wsQ[g]]
            /\ connPc' = [connPc EXCEPT ![g] = "drain"]
            /\ UNCHANGED inQ
    /\ hand' = [hand EXCEPT ![g] = NoFrame]
    /\ UNCHANGED <<handlerVars, cbLock, events, readerPc, writerPc, wire, nPing,
                   socket, ngen, pc, ret, nextSeq, clientVars>>

\* lines 204-207: tx_ws.send(ws_message).await appends to the writer's channel,
\* waits while it is full, and fails (break, then Ok(())) once rx_ws is dropped
DrainForward(g) ==
    /\ connPc[g] = "forward"
    /\ IF ~RxWsAlive(g)
       THEN /\ connPc' = [connPc EXCEPT ![g] = "ret_ok"]
            /\ inQ' = [inQ EXCEPT ![g] = <<>>]
            /\ UNCHANGED wsQ
       ELSE /\ Len(wsQ[g]) < ChanCap
            /\ wsQ' = [wsQ EXCEPT ![g] = Append(wsQ[g], hand[g])]
            /\ connPc' = [connPc EXCEPT ![g] = "drain"]
            /\ UNCHANGED inQ
    /\ hand' = [hand EXCEPT ![g] = NoFrame]
    /\ UNCHANGED <<handlerVars, cbLock, events, readerPc, writerPc, wire, nPing,
                   socket, ngen, pc, ret, nextSeq, clientVars>>

\* lines 88-89 of connect's closure: run_websocket returned Err; the callback
\* lock is taken and callback(Event::Disconnected) called
ConnErrNotify(g) ==
    /\ connPc[g] = "err_cb"
    /\ cbLock = NoGen
    /\ cbLock' = g
    /\ events' = Append(events, <<g, "Disconnected">>)
    /\ connPc' = [connPc EXCEPT ![g] = "err_status"]
    /\ UNCHANGED <<handlerVars, readerPc, writerPc, chanVars, socket, ngen, pc, ret, nextSeq, clientVars>>

\* line 92: connected set false, then the callback guard dropped
ConnErrStatus(g) ==
    /\ connPc[g] = "err_status"
    /\ connected' = FALSE
    /\ cbLock' = NoGen
    /\ connPc' = [connPc EXCEPT ![g] = "ret_err"]
    /\ UNCHANGED <<tx, txLock, events, readerPc, writerPc, chanVars, socket, ngen, pc, ret, nextSeq,
                   clientVars>>

(* ----------------------- the reader thread (131-178) -------------------- *)
\* impl From<OwnedMessage> for WebSocketMessage, on the frame's kind
FromOwned(kind) == kind

\* lines 133-173: one recv_message. Text and Binary are logged and Pong falls
\* to the `_` arm: the loop goes on with nothing changed. Ping queues a Pong on
\* the writer's channel (lines 150-156), going on at once when there is room,
\* waiting at "pong" while the channel is full, and leaving the loop when rx_ws
\* is dropped. Close or an error leaves the loop. Leaving the loop sets
\* connected false (line 173).
ReaderRecv(g) ==
    /\ readerPc[g] = "recv"
    /\ \E m \in InboundKinds :
        CASE m = "Error" \/ FromOwned(m) = "Close" ->
                /\ connected' = FALSE
                /\ readerPc' = [readerPc EXCEPT ![g] = "cb"]
                /\ UNCHANGED <<nPing, wsQ>>
          [] m # "Error" /\ FromOwned(m) = "Ping" ->
                /\ nPing[g] < MaxPings
                /\ nPing' = [nPing EXCEPT ![g] = nPing[g] + 1]
                /\ IF ~RxWsAlive(g)
                   THEN /\ connected' = FALSE
                        /\ readerPc' = [readerPc EXCEPT ![g] = "cb"]
                        /\ UNCHANGED wsQ
                   ELSE IF Len(wsQ[g]) < ChanCap
                   THEN /\ wsQ' = [wsQ EXCEPT ![g] = Append(wsQ[g], AutoPong)]
                        /\ UNCHANGED <<connected, readerPc>>
                   ELSE /\ readerPc' = [readerPc EXCEPT ![g] = "pong"]
                        /\ UNCHANGED <<connected, wsQ>>
          [] OTHER ->
                UNCHANGED <<connected, readerPc, nPing, wsQ>>
    /\ UNCHANGED <<tx, txLock, cbLock, events, connPc, writerPc, inQ, hand, wire,
                   socket, ngen, pc, ret, nextSeq, clientVars>>

\* ReaderPong without the send of line 153: the reader goes back to
\* recv_message with no Pong queued
ReaderPongDropped(g) ==
    /\ readerPc[g] = "pong"
    /\ IF ~RxWsAlive(g)
       THEN /\ connected' = FALSE
            /\ readerPc' = [readerPc EXCEPT ![g] = "cb"]
       ELSE /\ Len(wsQ[g]) < ChanCap
            /\ readerPc' = [readerPc EXCEPT ![g] = "recv"]
            /\ UNCHANGED connected
    /\ UNCHANGED <<tx, txLock, cbLock, events, connPc, writerPc, inQ, hand, wsQ, wire, nPing,
                   socket, ngen, pc, ret, nextSeq, clientVars>>

\* lines 151-156, the reader waiting on the full channel: the Pong is appended
\* once there is room; the send fails once rx_ws is dropped, the loop is left
\* and connected set false (line 173)
ReaderPong(g) ==
    /\ readerPc[g] = "pong"
    /\ IF ~RxWsAlive(g)
       THEN /\ connected' = FALSE
            /\ readerPc' = [readerPc EXCEPT ![g] = "cb"]
            /\ UNCHANGED wsQ
       ELSE /\ Len(wsQ[g]) < ChanCap
            /\ wsQ' = [wsQ EXCEPT ![g] = Append(wsQ[g], AutoPong)]
            /\ readerPc' = [readerPc EXCEPT ![g] = "recv"]
            /\ UNCHANGED connected
    /\ UNCHANGED <<tx, txLock, cbLock, events, connPc, writerPc, inQ, hand, wire, nPing,
                   socket, ngen, pc, ret, nextSeq, clientVars>>

\* lines 176-177: callback(Event::Disconnected) under the callback lock; the
\* closure ends and drops tx_ws_clone
ReaderNotify(g) ==
    /\ readerPc[g] = "cb"
    /\ cbLock = NoGen
    /\ events' = Append(events, <<g, "Disconnected">>)
    /\ readerPc' = [readerPc EXCEPT ![g] = "done"]
    /\ UNCHANGED <<handlerVars, cbLock, connPc, writerPc, chanVars, socket, ngen, pc, ret, nextSeq,
                   clientVars>>

(* ----------------------- the writer thread (181-192) -------------------- *)
\* lines 185-189: rx_ws.recv() yields the oldest frame and send_message
\* transmits it, or fails and the loop breaks, dropping rx_ws and what it holds
WriterSend(g) ==
    /\ writerPc[g] = "run"
    /\ wsQ[g] # <<>>
    /\ \E ok \in BOOLEAN :
        IF ok
        THEN /\ wire' = [wire EXCEPT ![g] = Append(wire[g], Head(wsQ[g]))]
             /\ wsQ' = [wsQ EXCEPT ![g] = Tail(wsQ[g])]
             /\ UNCHANGED writerPc
        ELSE /\ writerPc' = [writerPc EXCEPT ![g] = "failed"]
             /\ wsQ' = [wsQ EXCEPT ![g] = <<>>]
             /\ UNCHANGED wire
    /\ UNCHANGED <<handlerVars, cbLock, events, connPc, readerPc, inQ, hand, nPing,
                   socket, ngen, pc, ret, nextSeq, clientVars>>

\* line 185: rx_ws.recv() yields None once tx_ws and its clone are dropped and
\* the channel is empty
WriterEnd(g) ==
    /\ writerPc[g] = "run"
    /\ wsQ[g] = <<>>
    /\ ~TxWsAlive(g)
    /\ writerPc' = [writerPc EXCEPT ![g] = "done"]
    /\ UNCHANGED <<handlerVars, cbLock, events, connPc, readerPc, chanVars,
                   socket, ngen, pc, ret, nextSeq, clientVars>>

(* --------------------- WebSocketHandler::send (215-230) ----------------- *)
\* ConnectionError("Not connected") and ConnectionError("Failed to send message: ..")
IsConnectionError(res) == res \in {"NotConnected", "SendFailed"}

\* HandlerSend on a channel without a capacity: the frame is appended however
\* many frames wait
HandlerSendUnbounded(t, call, kind, nextPc, waitPc) ==
    /\ txLock \in {NoThread, t}
    /\ CASE tx = NoGen ->
              /\ ret' = [ret EXCEPT ![t] = [call EXCEPT !.res = "NotConnected"]]
              /\ pc' = [pc EXCEPT ![t] = "idle"]
              /\ UNCHANGED <<txLock, inQ, nextSeq>>
         [] tx # NoGen /\ ~ReceiverAlive(tx) ->
              /\ ret' = [ret EXCEPT ![t] = [call EXCEPT !.res = "SendFailed"]]
              /\ pc' = [pc EXCEPT ![t] = "idle"]
              /\ txLock' = NoThread
              /\ UNCHANGED <<inQ, nextSeq>>
         [] OTHER ->
              /\ inQ' = [inQ EXCEPT ![tx] = Append(inQ[tx], WebSocketMessage(kind, nextSeq))]
              /\ nextSeq' = nextSeq + 1
              /\ txLock' = NoThread
              /\ ret' = [ret EXCEPT ![t] =
                            [call EXCEPT !.res = IF nextPc = "idle" THEN "Ok" ELSE "pending"]]
              /\ pc' = [pc EXCEPT ![t] = nextPc]
    /\ UNCHANGED <<tx, connected, bgVars, hand, wsQ, wire, nPing, ngen, clientVars>>

\* send called by thread t within call `call`: the tx lock is taken; with no
\* Sender the call fails "Not connected"; sender.send(message).await appends
\* the frame, waits (holding the tx lock) while the channel is full, and fails
\* once the Receiver is dropped. On Ok the caller goes on at nextPc; while
\* waiting it stays at waitPc.
HandlerSend(t, call, kind, nextPc, waitPc) ==
    /\ txLock \in {NoThread, t}
    /\ CASE tx = NoGen ->
              /\ ret' = [ret EXCEPT ![t] = [call EXCEPT !.res = "NotConnected"]]
              /\ pc' = [pc EXCEPT ![t] = "idle"]
              /\ UNCHANGED <<txLock, inQ, nextSeq>>
         [] tx # NoGen /\ ~ReceiverAlive(tx) ->
              /\ ret' = [ret EXCEPT ![t] = [call EXCEPT !.res = "SendFailed"]]
              /\ pc' = [pc EXCEPT ![t] = "idle"]
              /\ txLock' = NoThread
              /\ UNCHANGED <<inQ, nextSeq>>
         [] tx # NoGen /\ ReceiverAlive(tx) /\ Len(inQ[tx]) >= ChanCap ->
              /\ txLock = NoThread
              /\ txLock' = t
              /\ ret' = [ret EXCEPT ![t] = [call EXCEPT !.res = "pending"]]
              /\ pc' = [pc EXCEPT ![t] = waitPc]
              /\ UNCHANGED <<inQ, nextSeq>>
         [] OTHER ->
              /\ inQ' = [inQ EXCEPT ![tx] = Append(inQ[tx], WebSocketMessage(kind, nextSeq))]
              /\ nextSeq' = nextSeq + 1
              /\ txLock' = NoThread
              /\ ret' = [ret EXCEPT ![t] =
                            [call EXCEPT !.res = IF nextPc = "idle" THEN "Ok" ELSE "pending"]]
              /\ pc' = [pc EXCEPT ![t] = nextPc]
    /\ UNCHANGED <<tx, connected, bgVars, hand, wsQ, wire, nPing, ngen, clientVars>>

\* the application calls WebSocketHandler::send with a frame of its choice,
\* or goes on with a send waiting on a full channel
WsSend(t) ==
    \/ /\ pc[t] = "idle"
       /\ nextSeq <= MaxSends
       /\ \E kind \in SendKinds :
            HandlerSend(t, Call("send", "pending", 0, kind), kind, "idle", "ws_send")
    \/ /\ pc[t] = "ws_send"
       /\ HandlerSend(t, ret[t], ret[t].kind, "idle", "ws_send")

(* ------------------ WebSocketHandler::disconnect (238-251) -------------- *)
\* Disconnect with the error of send ignored (line 240 without its `?`)
DisconnectIgnoringSendError(t) ==
    \/ /\ pc[t] = "idle"
       /\ nextSeq <= MaxSends
       /\ tx = NoGen
       /\ txLock = NoThread
       /\ ret' = [ret EXCEPT ![t] = Call("disconnect", "pending", 0, "Close")]
       /\ pc' = [pc EXCEPT ![t] = "dc_clear"]
       /\ UNCHANGED <<handlerVars, bgVars, chanVars, ngen, nextSeq, clientVars>>
    \/ /\ pc[t] = "idle"
       /\ nextSeq <= MaxSends
       /\ tx # NoGen
       /\ HandlerSend(t, Call("disconnect", "pending", 0, "Close"), "Close", "dc_clear", "dc_send")
    \/ /\ pc[t] = "dc_send"
       /\ HandlerSend(t, ret[t], "Close", "dc_clear", "dc_send")

\* line 240: self.send(WebSocketMessage::Close)?, within Client::disconnect
\* (op "disconnect") or within Client::logout (op "logout")
Disconnect(t) ==
    \/ /\ pc[t] = "idle"
       /\ nextSeq <= MaxSends
       /\ HandlerSend(t, Call("disconnect", "pending", 0, "Close"), "Close", "dc_clear", "dc_send")
    \/ /\ pc[t] = "dc_send"
       /\ HandlerSend(t, ret[t], "Close", "dc_clear", "dc_send")

\* lines 243-250: under the tx lock the Sender is dropped, connected set false
DisconnectClear(t) ==
    /\ pc[t] = "dc_clear"
    /\ txLock = NoThread
    /\ tx' = NoGen
    /\ connected' = FALSE
    /\ ret' = [ret EXCEPT ![t].res = "Ok"]
    /\ pc' = [pc EXCEPT ![t] = "idle"]
    /\ UNCHANGED <<txLock, bgVars, chanVars, ngen, nextSeq, clientVars>>

(* ----------------------------- Client ---------------------------------- *)
\* Client::is_connected (231-233) and WebSocketHandler::is_connected (233-235)
is_connected == connected
\* Client::is_authenticated (236-238)
is_authenticated == auth_state

\* the token generate_qr_code returns: "whatsapp://1234567890?key=" followed
\* by the hex encoding of the session id's random bytes
TokenPrefixLen == 26
SessionIdBytes == 8
TokenLen == TokenPrefixLen + 2 * SessionIdBytes

\* Client::generate_qr_code (186-207): auth_state becomes Some(AuthState)
GenerateQrCode(t) ==
    /\ pc[t] = "idle"
    /\ auth_state' = TRUE
    /\ logged_out' = FALSE
    /\ ret' = [ret EXCEPT ![t] = Call("generate_qr_code", "Ok", TokenLen, "none")]
    /\ UNCHANGED <<handlerVars, bgVars, chanVars, ngen, store, disk, pc, nextSeq, identVars, libVars, lockVars>>

\* SendMessage with the authentication check made before the connection check
SendMessageAuthFirst(t) ==
    /\ pc[t] = "idle"
    /\ nextSeq <= MaxSends
    /\ IF ~is_authenticated
       THEN /\ ret' = [ret EXCEPT ![t] = Call("send_message", "AuthError", 0, "Text")]
            /\ UNCHANGED pc
       ELSE IF ~is_connected
       THEN /\ ret' = [ret EXCEPT ![t] = Call("send_message", "NotConnected", 0, "Text")]
            /\ UNCHANGED pc
       ELSE /\ ret' = [ret EXCEPT ![t] = Call("send_message", "pending", 0, "Text")]
            /\ pc' = [pc EXCEPT ![t] = "sm_send"]
    /\ UNCHANGED <<handlerVars, bgVars, chanVars, ngen, nextSeq, clientVars>>

\* Client::send_message, lines 211-213: the connection check
SendMessage(t) ==
    /\ pc[t] = "idle"
    /\ nextSeq <= MaxSends
    /\ IF ~is_connected
       THEN /\ ret' = [ret EXCEPT ![t] = Call("send_message", "NotConnected", 0, "Text")]
            /\ UNCHANGED pc
       ELSE /\ ret' = [ret EXCEPT ![t] = Call("send_message", "pending", 0, "Text")]
            /\ pc' = [pc EXCEPT ![t] = "sm_auth"]
    /\ UNCHANGED <<handlerVars, bgVars, chanVars, ngen, nextSeq, clientVars>>

\* SendMessageAuth with the check left out
SendMessageAuthSkipped(t) ==
    /\ pc[t] = "sm_auth"
    /\ pc' = [pc EXCEPT ![t] = "sm_send"]
    /\ UNCHANGED ret
    /\ UNCHANGED <<handlerVars, bgVars, chanVars, ngen, nextSeq, clientVars>>

\* Client::send_message, lines 216-218: the authentication check
SendMessageAuth(t) ==
    /\ pc[t] = "sm_auth"
    /\ IF ~is_authenticated
       THEN /\ ret' = [ret EXCEPT ![t].res = "AuthError"]
            /\ pc' = [pc EXCEPT ![t] = "idle"]
       ELSE /\ pc' = [pc EXCEPT ![t] = "sm_send"]
            /\ UNCHANGED ret
    /\ UNCHANGED <<handlerVars, bgVars, chanVars, ngen, nextSeq, clientVars>>

\* Client::send_message, lines 221-227: the message goes to
\* websocket.send as a Text frame; Ok(message.id) once it is enqueued
SendMessageSend(t) ==
    /\ pc[t] = "sm_send"
    /\ HandlerSend(t, ret[t], "Text", "idle", "sm_send")

\* Logout with auth_state left as it is
LogoutKeepsAuth(t) ==
    /\ pc[t] = "idle"
    /\ nextSeq <= MaxSends
    /\ logged_out' = TRUE
    /\ ret' = [ret EXCEPT ![t] = Call("logout", "pending", 0, "Close")]
    /\ pc' = [pc EXCEPT ![t] = "lo_remove"]
    /\ UNCHANGED <<handlerVars, bgVars, chanVars, ngen, auth_state, store, disk, nextSeq,
                   identVars, libVars, lockVars>>

\* Client::logout, line 243: auth_state cleared
Logout(t) ==
    /\ pc[t] = "idle"
    /\ nextSeq <= MaxSends
    /\ auth_state' = FALSE
    /\ logged_out' = TRUE
    /\ ret' = [ret EXCEPT ![t] = Call("logout", "pending", 0, "Close")]
    /\ pc' = [pc EXCEPT ![t] = "lo_remove"]
    /\ UNCHANGED <<handlerVars, bgVars, chanVars, ngen, store, disk, nextSeq, identVars, libVars, lockVars>>

\* Client::logout, line 246: store.remove("credentials")? takes the key out of
\* the data and saves the file; a failed write returns IOError from logout.
\* Line 249 (websocket.disconnect()?) follows at dc_send.
LogoutRemove(t) ==
    /\ pc[t] = "lo_remove"
    /\ store' = Remove(store, "credentials")
    /\ \E ok \in BOOLEAN :
        IF ok
        THEN /\ disk' = File(ToString(store'))
             /\ pc' = [pc EXCEPT ![t] = "dc_send"]
             /\ UNCHANGED ret
        ELSE /\ ret' = [ret EXCEPT ![t].res = "IOError"]
             /\ pc' = [pc EXCEPT ![t] = "idle"]
             /\ UNCHANGED disk
    /\ UNCHANGED <<handlerVars, bgVars, chanVars, ngen, nextSeq, auth_state, logged_out,
                   identVars, libVars, lockVars>>

(* --------------------- a further Client::new (128-169) ------------------ *)
\* the process ends with no call under way and a new one constructs a Client
\* on the same store path: the file is what the store last wrote, everything
\* in memory starts afresh
ClientNew(t) ==
    /\ \A u \in Threads : pc[u] = "idle"
    /\ constructions < MaxConstructions
    /\ constructions' = constructions + 1
    /\ \E saved \in BOOLEAN :
        /\ device_id' = NewDeviceId(disk, nminted)
        /\ store' = NewStore(disk, nminted)
        /\ disk' = NewDisk(disk, nminted, saved)
        /\ nminted' = NewMinted(disk, nminted)
    /\ auth_state' = FALSE
    /\ logged_out' = FALSE
    /\ event_handlers' = <<>>
    /\ early_handlers' = 0
    /\ tx' = NoGen
    /\ txLock' = NoThread
    /\ connected' = FALSE
    /\ cbLock' = NoGen
    /\ events' = <<>>
    /\ connPc' = [g \in Gens |-> "unborn"]
    /\ readerPc' = [g \in Gens |-> "unborn"]
    /\ writerPc' = [g \in Gens |-> "unborn"]
    /\ socket' = [g \in Gens |-> "none"]
    /\ inQ' = [g \in Gens |-> <<>>]
    /\ hand' = [g \in Gens |-> NoFrame]
    /\ wsQ' = [g \in Gens |-> <<>>]
    /\ wire' = [g \in Gens |-> <<>>]
    /\ nPing' = [g \in Gens |-> 0]
    /\ ngen' = 0
    /\ ret' = [ret EXCEPT ![t] = Call("new", "Ok", constructions + 1, "none")]
    /\ UNCHANGED <<pc, nextSeq, libVars, lockVars>>

(* ------------------- observers of the client.rs Client ------------------ *)
\* Client::add_event_handler (172-178): the observer is pushed on
\* event_handlers; an observer is named by its place in the list
AddEventHandler(t) ==
    /\ pc[t] = "idle"
    /\ Len(event_handlers) < MaxObservers
    /\ event_handlers' = Append(event_handlers, Len(event_handlers) + 1)
    /\ early_handlers' = IF ngen = 0 THEN early_handlers + 1 ELSE early_handlers
    /\ ret' = [ret EXCEPT ![t] = Call("add_event_handler", "Ok", 0, "none")]
    /\ UNCHANGED <<handlerVars, bgVars, chanVars, ngen, pc, nextSeq>>
    /\ UNCHANGED <<auth_state, store, disk, logged_out, device_id, constructions, nminted, libVars,
                   lockVars>>

\* the closure Client::new gives the WebSocketHandler as its event callback
\* (client.rs 161-164): the invocations of observers it makes for one event.
\* It logs the event and invokes none.
ClientCallback(event) == <<>>

\* the invocations of the Client's observers, <<observer, event>>, that the
\* callback has made for the events raised so far
RECURSIVE Dispatched(_)
Dispatched(evs) ==
    IF evs = <<>> THEN <<>> ELSE ClientCallback(Head(evs)[2]) \o Dispatched(Tail(evs))
ObserverCalls == Dispatched(events)

(* ------------------------ the lib.rs Client (126-212) ------------------- *)
\* everything but the lib.rs Client
sessionVars == <<handlerVars, bgVars, chanVars, ngen, pc, ret, nextSeq,
                 auth_state, store, disk, logged_out, identVars, lockVars>>

\* what an observer does when it is invoked: it returns, it panics, or it
\* calls add_event_handler on the Client that invokes it
ObserverBehaviours == {"returns", "panics", "registers"}
\* what Mutex::lock does on the thread that already holds the Mutex: it never
\* returns, blocking for ever or panicking
RelockOutcomes == {"deadlock", "panic"}

\* Client::add_event_handler (lib.rs 165-171): the observer is pushed on
\* event_handlers; lock().unwrap() panics on a poisoned Mutex, nothing pushed
LibAddEventHandler ==
    /\ lib_pc = "idle"
    /\ ~lib_poisoned
    /\ Len(lib_event_handlers) < MaxObservers
    /\ \E b \in ObserverBehaviours :
         lib_event_handlers' = Append(lib_event_handlers, b)
    /\ UNCHANGED <<lib_connected, lib_poisoned, lib_pc, lib_event, lib_pos, lib_raised, lib_calls>>
    /\ UNCHANGED sessionVars

\* dispatch_event (lib.rs 174-175) called with `event`: the Mutex around
\* event_handlers is locked for the whole loop; lock().unwrap() panics on a
\* poisoned Mutex and no observer is invoked. lib_raised records the event and
\* the number of observers registered at the call.
DispatchEvent(event) ==
    /\ Len(lib_raised) < MaxEvents
    /\ lib_raised' = Append(lib_raised, <<event, Len(lib_event_handlers)>>)
    /\ IF lib_poisoned
       THEN UNCHANGED <<lib_pc, lib_event, lib_pos>>
       ELSE /\ lib_pc' = "dispatch"
            /\ lib_event' = event
            /\ lib_pos' = 1
    /\ UNCHANGED <<lib_event_handlers, lib_poisoned, lib_calls>>
    /\ UNCHANGED sessionVars

\* Client::connect (lib.rs 143-151): connected set, Connected dispatched
LibConnect ==
    /\ lib_pc = "idle"
    /\ lib_connected' = TRUE
    /\ DispatchEvent("Connected")

\* Client::disconnect (lib.rs 154-162): connected cleared, Disconnected dispatched
LibDisconnect ==
    /\ lib_pc = "idle"
    /\ lib_connected' = FALSE
    /\ DispatchEvent("Disconnected")

\* LibInvoke leaving the loop after the handler it invoked
LibInvokeFirstOnly ==
    /\ lib_pc = "dispatch"
    /\ lib_pos <= Len(lib_event_handlers)
    /\ lib_calls' = Append(lib_calls, <<Len(lib_raised), lib_pos, lib_event>>)
    /\ lib_poisoned' = (lib_event_handlers[lib_pos] = "panics")
    /\ lib_pc' = "idle"
    /\ lib_event' = "none"
    /\ lib_pos' = 0
    /\ UNCHANGED <<lib_event_handlers, lib_connected, lib_raised>>
    /\ UNCHANGED sessionVars

\* dispatch_event (lib.rs 176-178): the next handler is invoked with a clone
\* of the event. A handler that panics unwinds dispatch_event and its caller:
\* the loop is left and the MutexGuard, dropped while panicking, poisons the
\* Mutex. A handler that calls add_event_handler locks event_handlers (line
\* 169) on the thread that holds it since line 175: the call never returns,
\* the thread staying in it or panicking.
LibInvoke ==
    /\ lib_pc = "dispatch"
    /\ lib_pos <= Len(lib_event_handlers)
    /\ lib_calls' = Append(lib_calls, <<Len(lib_raised), lib_pos, lib_event>>)
    /\ \E relock \in RelockOutcomes :
        LET h == lib_event_handlers[lib_pos] IN
        IF h = "panics" \/ (h = "registers" /\ relock = "panic")
        THEN /\ lib_poisoned' = TRUE
             /\ lib_pc' = "idle"
             /\ lib_event' = "none"
             /\ lib_pos' = 0
        ELSE IF h = "registers"
        THEN /\ lib_pc' = "deadlock"
             /\ UNCHANGED <<lib_poisoned, lib_event, lib_pos>>
        ELSE /\ lib_pos' = lib_pos + 1
             /\ UNCHANGED <<lib_poisoned, lib_pc, lib_event>>
    /\ UNCHANGED <<lib_event_handlers, lib_connected, lib_raised>>
    /\ UNCHANGED sessionVars

\* dispatch_event (lib.rs 176-179): the loop has gone through the handlers
LibDispatchEnd ==
    /\ lib_pc = "dispatch"
    /\ lib_pos > Len(lib_event_handlers)
    /\ lib_pc' = "idle"
    /\ lib_event' = "none"
    /\ lib_pos' = 0
    /\ UNCHANGED <<lib_event_handlers, lib_connected, lib_poisoned, lib_raised, lib_calls>>
    /\ UNCHANGED sessionVars

(* -------------- lock() calls of the WebSocketHandler (70-251) ----------- *)
\* The operations and threads of the handler as the sequences of lock() calls
\* and guard drops they make, channels never full and the event callback
\* calling nothing of the handler.
Lock(l) == [op |-> "lock", lock |-> l]
Unlock(l) == [op |-> "unlock", lock |-> l]

\* connect, line 80: the guard of tx is a temporary of the assignment
ConnectLocks == <<Lock("tx"), Unlock("tx")>>
\* send, lines 216-229: the guard of tx lives to the end of the function
SendLocks == <<Lock("tx"), Unlock("tx")>>
\* is_connected, line 234: a temporary guard of connected
IsConnectedLocks == <<Lock("connected"), Unlock("connected")>>
\* disconnect, lines 240-250: send, then the guard of tx (243) and, with it
\* held, the guard of connected (247), dropped in reverse order at line 250
DisconnectLocks ==
    SendLocks \o <<Lock("tx"), Lock("connected"), Unlock("connected"), Unlock("tx")>>
\* run_websocket, lines 116-121: a temporary guard of connected, then the
\* guard of event_callback, dropped at line 121
RunWebsocketLocks ==
    <<Lock("connected"), Unlock("connected"), Lock("event_callback"), Unlock("event_callback")>>
\* the error closure of connect, lines 88-93: the guard of event_callback, and
\* with it held a temporary guard of connected (92)
ErrorClosureLocks ==
    <<Lock("event_callback"), Lock("connected"), Unlock("connected"), Unlock("event_callback")>>
\* the reader thread after its loop, lines 173-177: a temporary guard of
\* connected, then the guard of event_callback to the end of the closure
ReaderLocks ==
    <<Lock("connected"), Unlock("connected"), Lock("event_callback"), Unlock("event_callback")>>

\* LockProgram with run_websocket binding its guard of connected to a
\* variable, and so holding it over the callback
LockProgramGuardKept(r) ==
    CASE r = "connect" -> ConnectLocks
      [] r = "send" -> SendLocks
      [] r = "is_connected" -> IsConnectedLocks
      [] r = "disconnect" -> DisconnectLocks
      [] r = "run_websocket" ->
            <<Lock("connected"), Lock("event_callback"),
              Unlock("event_callback"), Unlock("connected")>>
      [] r = "error_closure" -> ErrorClosureLocks
      [] r = "reader" -> ReaderLocks

\* the lock operations of routine r, in program order
LockProgram(r) ==
    CASE r = "connect" -> ConnectLocks
      [] r = "send" -> SendLocks
      [] r = "is_connected" -> IsConnectedLocks
      [] r = "disconnect" -> DisconnectLocks
      [] r = "run_websocket" -> RunWebsocketLocks
      [] r = "error_closure" -> ErrorClosureLocks
      [] r = "reader" -> ReaderLocks

\* the routines thread th runs: a caller any operation; a connection thread
\* run_websocket up to the Connected callback, or the error closure after
\* run_websocket returned Err; a reader thread the end of its closure
Routines(th) ==
    IF th \in Threads THEN {"connect", "send", "is_connected", "disconnect"}
    ELSE IF th \in ConnThreads THEN {"run_websocket", "error_closure"}
    ELSE {"reader"}

\* thread th is inside a routine, at a lock operation
Locking(th) == lockPc[th] # NotLocking
\* the lock operation thread th is at
LockOp(th) == LockProgram(lockPc[th].routine)[lockPc[th].at]
\* where thread th is after the operation it is at
LockAdvance(th) ==
    IF lockPc[th].at = Len(LockProgram(lockPc[th].routine))
    THEN NotLocking
    ELSE [lockPc[th] EXCEPT !.at = @ + 1]
\* everything but the locks
unlockedVars == <<handlerVars, bgVars, chanVars, ngen, pc, ret, nextSeq,
                  auth_state, store, disk, logged_out, identVars, libVars>>

\* thread th enters one of its routines
LockCall(th) ==
    /\ ~Locking(th)
    /\ \E r \in Routines(th) : lockPc' = [lockPc EXCEPT ![th] = [routine |-> r, at |-> 1]]
    /\ UNCHANGED <<lockOwner, unlockedVars>>

\* Mutex::lock returns once no thread holds the Mutex
LockAcquire(th) ==
    /\ Locking(th)
    /\ LockOp(th).op = "lock"
    /\ lockOwner[LockOp(th).lock] = NoThread
    /\ lockOwner' = [lockOwner EXCEPT ![LockOp(th).lock] = th]
    /\ lockPc' = [lockPc EXCEPT ![th] = LockAdvance(th)]
    /\ UNCHANGED unlockedVars

\* the MutexGuard is dropped
LockRelease(th) ==
    /\ Locking(th)
    /\ LockOp(th).op = "unlock"
    /\ lockOwner' = [lockOwner EXCEPT ![LockOp(th).lock] = NoThread]
    /\ lockPc' = [lockPc EXCEPT ![th] = LockAdvance(th)]
    /\ UNCHANGED unlockedVars

(* --------------------------- specifications ---------------------------- *)
\* one step of generation g's connection, reader or writer thread
Background(g) ==
    \/ ConnEstablish(g)
    \/ ConnNotify(g)
    \/ DrainRecv(g)
    \/ DrainForward(g)
    \/ ConnErrNotify(g)
    \/ ConnErrStatus(g)
    \/ ReaderRecv(g)
    \/ ReaderPong(g)
    \/ ReaderNotify(g)
    \/ WriterSend(g)
    \/ WriterEnd(g)

\* the first connect() call of a behaviour
FirstConnect(t) ==
    /\ ngen = 0
    /\ Connect(t)

\* one step of thread t calling into the WebSocketHandler: connect, send of a
\* frame, disconnect
Handler(t) ==
    \/ FirstConnect(t)
    \/ WsSend(t)
    \/ Disconnect(t)
    \/ DisconnectClear(t)

\* one step of thread t calling into the Client: connect, generate_qr_code,
\* send_message, logout, disconnect
ClientApp(t) ==
    \/ FirstConnect(t)
    \/ GenerateQrCode(t)
    \/ SendMessage(t)
    \/ SendMessageAuth(t)
    \/ SendMessageSend(t)
    \/ Logout(t)
    \/ LogoutRemove(t)
    \/ Disconnect(t)
    \/ DisconnectClear(t)

\* the transport: the threads of Threads share one WebSocketHandler
Next == (\E t \in Threads : Handler(t)) \/ (\E g \in Gens : Background(g))
Spec == Init /\ [][Next]_vars

\* the steps the threads of generation g take on their own once enabled: all
\* of Background(g) but recv_message returning, which waits for the peer
Scheduled(g) ==
    /\ WF_vars(ConnEstablish(g))
    /\ WF_vars(ConnNotify(g))
    /\ WF_vars(DrainRecv(g))
    /\ WF_vars(DrainForward(g))
    /\ WF_vars(ConnErrNotify(g))
    /\ WF_vars(ConnErrStatus(g))
    /\ WF_vars(ReaderPong(g))
    /\ WF_vars(ReaderNotify(g))
    /\ WF_vars(WriterSend(g))
    /\ WF_vars(WriterEnd(g))

\* the transport with every spawned thread scheduled, and a disconnect() call
\* that sent its Close running on to its return; the peer may stay silent and
\* the application may stop calling
LiveSpec ==
    /\ Spec
    /\ \A g \in Gens : Scheduled(g)
    /\ \A t \in Threads : WF_vars(DisconnectClear(t))

\* one thread calling connect() again and again on one WebSocketHandler, each
\* call starting a new generation of threads: it sends on the first
\* connection, and calls disconnect() when it chooses
Reconnecting(t) ==
    \/ Connect(t)
    \/ ngen = 1 /\ WsSend(t)
    \/ Disconnect(t)
    \/ DisconnectClear(t)
ReconnectNext == Reconnecting(MainThread) \/ (\E g \in Gens : Background(g))
ReconnectSpec == Init /\ [][ReconnectNext]_vars

\* ReconnectSpec with every spawned thread scheduled and disconnect() running
\* on to its return; the peer may stay silent
ReconnectLiveSpec ==
    /\ ReconnectSpec
    /\ \A g \in Gens : Scheduled(g)
    /\ WF_vars(DisconnectClear(MainThread))

\* the threads locking the Mutexes of one WebSocketHandler: two callers, two
\* connection threads and two reader threads, each running its routines again
\* and again
LockNext ==
    \E th \in LockThreads :
        \/ LockCall(th)
        \/ LockAcquire(th)
        \/ LockRelease(th)
LockSpec == Init /\ [][LockNext]_vars

\* the session with observers: one thread registers observers and calls into
\* the Client
ObserverNext ==
    \/ AddEventHandler(MainThread)
    \/ ClientApp(MainThread)
    \/ (\E g \in Gens : Background(g))
ObserverSpec == Init /\ [][ObserverNext]_vars

\* the lib.rs Client: one thread registers observers, connects and disconnects
LibNext ==
    \/ LibAddEventHandler
    \/ LibConnect
    \/ LibDisconnect
    \/ LibInvoke
    \/ LibDispatchEnd
LibSpec == Init /\ [][LibNext]_vars

\* the session over several constructions of the Client on one store path,
\* the first of which may fail to save the device id it minted
RestartInit == \E saved \in BOOLEAN : InitWith(NoFile, 0, saved)
RestartNext ==
    \/ ClientNew(MainThread)
    \/ ClientApp(MainThread)
    \/ (\E g \in Gens : Background(g))
RestartSpec == RestartInit /\ [][RestartNext]_vars

\* a second thread sharing the Client, which only sends messages
SenderThread == "t2"
Sender(t) ==
    \/ SendMessage(t)
    \/ SendMessageAuth(t)
    \/ SendMessageSend(t)

\* the session shared by two threads: one calls every operation of the
\* Client, the other calls send_message concurrently
RaceNext ==
    \/ ClientApp(MainThread)
    \/ Sender(SenderThread)
    \/ (\E g \in Gens : Background(g))
RaceSpec == Init /\ [][RaceNext]_vars

\* the session: one thread calls into the Client
ClientNext == ClientApp(MainThread) \/ (\E g \in Gens : Background(g))
ClientSpec == Init /\ [][ClientNext]_vars

(* ------------------------------ claims -------------------------------- *)
\* thread t returns from a call of op in this step
ReturnStep(t, op) ==
    /\ ret'[t].op = op
    /\ ret'[t].res # "pending"
    /\ pc'[t] = "idle"
    /\ (ret'[t] # ret[t] \/ pc'[t] # pc[t])

\* thread t, idle, calls op in this step
CallStep(t, op) ==
    /\ pc[t] = "idle"
    /\ ret'[t].op = op
    /\ (ret'[t] # ret[t] \/ pc'[t] # pc[t])

\* the frames of q that a send call enqueued
SentFrames(q) == SelectSeq(q, LAMBDA f : f.seq > 0)

\* q's frames are in the order of their enqueuing
InSendOrder(q) == \A i, j \in 1..Len(q) : i < j => q[i].seq < q[j].seq

\* C1: on every connection the frames enqueued by send calls (by any thread,
\* send_message and disconnect included) are transmitted by the writer in the
\* order the calls enqueued them, and whatever else is transmitted among them
\* is a Pong the reader enqueued.
C1_WriterKeepsSendOrder ==
    \A g \in Gens :
        /\ InSendOrder(SentFrames(wire[g]))
        /\ \A i \in 1..Len(wire[g]) : wire[g][i].seq = 0 => wire[g][i] = AutoPong

\* some connection has transmitted a sent frame, then a Pong, then a later sent frame
C1_Witness ==
    \E g \in Gens : \E i, j, k \in 1..Len(wire[g]) :
        /\ i < j /\ j < k
        /\ wire[g][i].seq > 0
        /\ wire[g][j] = AutoPong
        /\ wire[g][k].seq > wire[g][i].seq

\* C2: a send_message call made while the transport is not connected returns
\* ConnectionError from its connection check, whether auth_state is None or
\* Some, and enqueues no frame.
C2_SendMessageNotConnected ==
    [][\A t \in Threads :
          (CallStep(t, "send_message") /\ ~is_connected) =>
              /\ pc'[t] = "idle"
              /\ IsConnectionError(ret'[t].res)
              /\ UNCHANGED <<inQ, hand, wsQ, wire, nextSeq>>]_vars

\* send_message has failed with ConnectionError while auth_state is Some and
\* no frame was ever enqueued
C2_Witness ==
    /\ ret[MainThread] = Call("send_message", "NotConnected", 0, "Text")
    /\ is_authenticated
    /\ nextSeq = 1

\* C3 as stated: whenever send_message returns with auth_state None, it
\* returns AuthError, connected or not.
C3_AuthErrorRegardlessOfConnection ==
    [][\A t \in Threads :
          (ReturnStep(t, "send_message") /\ ~is_authenticated) =>
              ret'[t].res = "AuthError"]_vars

\* C3 as amended: with auth_state None send_message fails and enqueues no
\* frame: with AuthError when its connection check saw the transport
\* connected, with ConnectionError when the transport is not connected.
C3_AuthErrorWhenConnected ==
    [][\A t \in Threads :
          (ReturnStep(t, "send_message") /\ ~is_authenticated) =>
              /\ \/ pc[t] = "sm_auth" /\ ret'[t].res = "AuthError"
                 \/ pc[t] = "idle" /\ ~is_connected /\ ret'[t].res = "NotConnected"
              /\ UNCHANGED <<inQ, hand, wsQ, wire, nextSeq>>]_vars

\* send_message has failed with AuthError on a connected transport
C3_Witness ==
    /\ ret[MainThread] = Call("send_message", "AuthError", 0, "Text")
    /\ ~is_authenticated
    /\ is_connected

\* C4: from the moment logout is called, whatever it goes on to return,
\* is_authenticated() is false until generate_qr_code is called.
C4_LoggedOutNotAuthenticated == logged_out => ~is_authenticated

\* logout was called after a pairing and has returned an error (the store
\* could not be saved), leaving the transport connected
C4_Witness ==
    /\ ret[MainThread] = Call("logout", "IOError", 0, "Close")
    /\ logged_out
    /\ is_connected
    /\ \E i \in 1..Len(events) : events[i][2] = "Connected"

\* C5 as stated: a send_message that returns after logout (and before any
\* generate_qr_code) returns AuthError.
C5_AuthErrorAfterLogout ==
    \A t \in Threads :
        (logged_out /\ pc[t] = "idle" /\ ret[t].op = "send_message") =>
            ret[t].res = "AuthError"

\* C5 as amended: a send_message made after logout (and before any
\* generate_qr_code) fails and enqueues no frame: with ConnectionError when the
\* transport is not connected, which is how a logout that returned Ok leaves
\* it, and with AuthError when its connection check saw the transport connected.
C5_FailsAfterLogout ==
    [][\A t \in Threads :
          (ReturnStep(t, "send_message") /\ logged_out) =>
              /\ \/ pc[t] = "idle" /\ ~is_connected /\ ret'[t].res = "NotConnected"
                 \/ pc[t] = "sm_auth" /\ ret'[t].res = "AuthError"
              /\ UNCHANGED <<inQ, hand, wsQ, wire, nextSeq>>]_vars

\* after a logout that disconnected a connected transport, with connect
\* called once only, send_message has failed with ConnectionError
C5_Witness ==
    /\ ret[MainThread] = Call("send_message", "NotConnected", 0, "Text")
    /\ logged_out
    /\ ngen = 1
    /\ tx = NoGen
    /\ \E i \in 1..Len(events) : events[i][2] = "Connected"

\* C6 as stated: after generate_qr_code has returned its token, the token is
\* not empty and is_authenticated() is false.
C6_PairingNotAuthenticated ==
    \A t \in Threads :
        (pc[t] = "idle" /\ ret[t].op = "generate_qr_code") =>
            /\ ret[t].res = "Ok"
            /\ ret[t].val > 0
            /\ ~is_authenticated

\* the connection thread of generation g failed to establish the socket
SocketFailed(g) == socket[g] = "failed"
\* no connection thread has established a socket
NoSocketEstablished == \A g \in Gens : socket[g] # "open"

\* C7 as stated: the connect() call whose socket could not be established
\* has returned ConnectionError.
C7_ConnectReturnsError ==
    \A t \in Threads :
        (ret[t].op = "connect" /\ SocketFailed(ret[t].val)) => IsConnectionError(ret[t].res)

\* C8: for a connect() attempt whose socket cannot be established, Connected
\* is never raised, Disconnected is raised exactly once (by the time the
\* connection thread ends, and not before it takes the callback), no reader or
\* writer is started, and connected stays false while no attempt has
\* established a socket.
C8_FailedAttemptEvents ==
    \A g \in Gens :
        SocketFailed(g) =>
            /\ EventCount(g, "Connected") = 0
            /\ EventCount(g, "Disconnected") = (IF connPc[g] = "err_cb" THEN 0 ELSE 1)
            /\ readerPc[g] = "unborn" /\ writerPc[g] = "unborn"
            /\ NoSocketEstablished => ~is_connected

\* a failed attempt has run to its end
C8_Witness ==
    \E g \in Gens :
        /\ connPc[g] = "ret_err"
        /\ events = <<<<g, "Disconnected">>>>
        /\ ~is_connected

\* the handler holds no live connection: it never connected or disconnect()
\* cleared tx, the peer closed the connection (the reader left its loop), or
\* the connection attempt failed
NoActiveQueue ==
    \/ tx = NoGen
    \/ tx # NoGen /\ (SocketFailed(tx) \/ readerPc[tx] \in {"cb", "done"})

\* C9 as stated, its last part: send never returns Ok in a state where the
\* handler was never connected or is already disconnected.
C9_SendFailsWhenDisconnected ==
    [][\A t \in Threads :
          (ReturnStep(t, "send") /\ NoActiveQueue) => IsConnectionError(ret'[t].res)]_vars

\* the Close frames in q
CloseFrames(q) == SelectSeq(q, LAMBDA f : f.kind = "Close")

Notified(i, e) == \E k \in 1..Len(ObserverCalls) : ObserverCalls[k] = <<i, e>>

\* C11 as stated: once the transport has raised Connected (Disconnected),
\* every observer registered with add_event_handler before connect() has been
\* invoked with Connected (Disconnected).
C11_ObserversNotified ==
    \A i \in 1..early_handlers : \A e \in {"Connected", "Disconnected"} :
        (\E g \in Gens : EventCount(g, e) > 0) => Notified(i, e)

\* the invocations of observers made by the k-th dispatch_event call
CallsOf(k) == SelectSeq(lib_calls, LAMBDA c : c[1] = k)
\* the k-th dispatch_event call has returned or unwound
DispatchOver(k) == k < Len(lib_raised) \/ lib_pc = "idle"
\* the observers 1..n, each invoked once with event e by the k-th call, in
\* registration order
InOrderOnce(k, n, e) == [i \in 1..n |-> <<k, i, e>>]

\* C12: a dispatch_event call made with N observers registered, none of which
\* fails, invokes the N observers once each in registration order: while it
\* runs it has invoked the first lib_pos - 1 of them, and when it is over all N.
C12_AllObserversInOrder ==
    \A k \in 1..Len(lib_raised) :
        (\A i \in 1..lib_raised[k][2] : lib_event_handlers[i] = "returns") =>
            CallsOf(k) = InOrderOnce(k,
                                     IF DispatchOver(k) THEN lib_raised[k][2] ELSE lib_pos - 1,
                                     lib_raised[k][1])

\* two observers that return were registered, then two events dispatched to both
C12_Witness ==
    /\ lib_event_handlers = <<"returns", "returns">>
    /\ lib_raised = << <<"Connected", 2>>, <<"Disconnected", 2>> >>
    /\ lib_pc = "idle"
    /\ Len(lib_calls) = 4

\* C13 as stated: a dispatch_event call made with N observers registered
\* has, when it is over, invoked each of the N once, in registration order,
\* whether or not an observer failed in this or in an earlier call.
C13_FailureIsolated ==
    \A k \in 1..Len(lib_raised) :
        DispatchOver(k) => CallsOf(k) = InOrderOnce(k, lib_raised[k][2], lib_raised[k][1])

\* thread t is inside a send call, waiting or about to enqueue
InSend(t) == pc[t] \in {"ws_send", "sm_send", "dc_send"}
\* the channel tx sends on is full and its Receiver alive
QueueFull == tx # NoGen /\ ReceiverAlive(tx) /\ Len(inQ[tx]) = ChanCap

\* C14: the channel between send and the connection thread never holds more
\* than its capacity; a frame is enqueued only where there is room, one at a
\* time; and while the channel is full no send call enqueues or returns Ok,
\* a call inside send staying where it is.
C14_QueueBounded ==
    [][/\ \A g \in Gens : Len(inQ'[g]) <= ChanCap
       /\ nextSeq' # nextSeq =>
             /\ tx # NoGen
             /\ Len(inQ[tx]) < ChanCap
             /\ Len(inQ'[tx]) = Len(inQ[tx]) + 1
       /\ QueueFull =>
             /\ nextSeq' = nextSeq
             /\ \A t \in Threads : InSend(t) => pc'[t] = pc[t]
             /\ \A t \in Threads : ~(ReturnStep(t, "send") /\ ret'[t].res = "Ok")]_vars

\* the channel is full with nothing draining it yet, and a further send waits
C14_Witness ==
    \E t \in Threads :
        /\ pc[t] = "ws_send"
        /\ txLock = t
        /\ QueueFull
        /\ connPc[tx] = "start"

\* the device id the store file holds (NoValue when it holds none)
StoredDeviceId(file) == Get(DeviceStoreNew(file), "device_id")

C16_OneDisconnectedPerConnection ==
    \A g \in Gens :
        /\ EventCount(g, "Disconnected") <= 1
        /\ readerPc[g] = "done" => EventCount(g, "Disconnected") = 1
        /\ (readerPc[g] \in {"cb", "done"} /\ ngen = g) => ~is_connected

\* the threads of generation g have run as far as they can on their own: the
\* connection thread has returned or waits for a frame to drain, the reader
\* waits for the peer or has ended, and no call of the application is under way
Quiescent(g) ==
    /\ \/ connPc[g] \in {"ret_ok", "ret_err"}
       \/ connPc[g] = "drain" /\ inQ[g] = <<>> /\ SenderAlive(g)
    /\ readerPc[g] \in {"recv", "done"}
    /\ \A t \in Threads : pc[t] = "idle"

\* C17 as stated: a transmission failure ends the writer loop, which
\* transmits nothing afterwards; and once the connection's threads have run
\* as far as they can, connected is false and Disconnected has been raised.
C17_WriterFailureDisconnects ==
    \A g \in Gens :
        (writerPc[g] = "failed" /\ Quiescent(g)) =>
            /\ ~is_connected
            /\ EventCount(g, "Disconnected") >= 1

\* this step enqueues a message (Text) frame on generation g's channel
EnqueuesMessage(g) ==
    /\ Len(inQ'[g]) = Len(inQ[g]) + 1
    /\ inQ'[g][Len(inQ'[g])].kind = "Text"

\* C18 as stated: send_message enqueues a message frame only while
\* auth_state is Some, also when a logout runs concurrently.
C18_SendsOnlyWhileAuthenticated ==
    [][\A g \in Gens : EnqueuesMessage(g) => is_authenticated]_vars

\* thread t is in logout's websocket.disconnect(): about to enqueue Close, or
\* with Close enqueued and about to clear tx and connected
LogoutAtTransport(t) == ret[t].op = "logout" /\ pc[t] \in {"dc_send", "dc_clear"}

\* C19: whenever a logout call is at, or acts on, the transport (enqueues
\* Close, clears tx, sets connected false), auth_state is already empty, and
\* it stays empty until the call has returned, whatever a concurrent
\* send_message does.
C19_LogoutClearsAuthFirst ==
    [][\A t \in Threads :
          /\ LogoutAtTransport(t) => ~is_authenticated
          /\ (ret[t].op = "logout" /\ pc[t] # "idle"
                /\ (inQ' # inQ \/ tx' # tx \/ connected' # connected)) => ~is_authenticated
          /\ (LogoutAtTransport(t) /\ pc'[t] = "idle") => ~is_authenticated']_vars

\* logout has enqueued Close on a live connection while the other thread is
\* inside send_message, past its checks
C19_Witness ==
    /\ LogoutAtTransport(MainThread)
    /\ pc[MainThread] = "dc_clear"
    /\ pc[SenderThread] = "sm_send"
    /\ tx # NoGen
    /\ \E i \in 1..Len(inQ[tx] \o wsQ[tx] \o wire[tx]) :
          (inQ[tx] \o wsQ[tx] \o wire[tx])[i].kind = "Close"

\* disconnect() has returned Ok and connect() has not been called since: tx
\* is None after a connect() call
DisconnectedSinceConnect == ngen >= 1 /\ tx = NoGen

\* C20 as stated: from the return of disconnect() until the next connect()
\* call, is_connected() is false and no Connected event is raised.
C20_StaysDisconnected ==
    [][DisconnectedSinceConnect =>
          /\ ~is_connected
          /\ (DisconnectedSinceConnect' =>
                /\ ~is_connected'
                /\ \A g \in Gens : EventCount(g, "Connected")' = EventCount(g, "Connected"))]_vars

\* C21 as stated: a send waiting on the full channel does not hold the lock
\* around tx, so that another send or disconnect() can take it.
C21_NoLockAcrossBlockingSend ==
    \A t \in Threads : (InSend(t) /\ QueueFull) => txLock # t

\* C22 as stated: the reader never waits on the writer: while its thread
\* runs and has not left the loop, it is at recv_message, ready for the next
\* inbound frame, however full the writer's channel is.
C22_ReaderNeverWaitsOnWriter ==
    \A g \in Gens : readerPc[g] \in {"unborn", "recv", "cb", "done"}

\* the Pongs of the reader among the frames of q
AutoPongs(q) == SelectSeq(q, LAMBDA m : m = AutoPong)
\* the Pongs the reader of connection g has queued for the writer: those
\* transmitted and those still in the writer's channel
PongsQueued(g) == Len(AutoPongs(wire[g] \o wsQ[g]))
\* the Pings of connection g whose Pong the reader is still waiting to queue
PongsPending(g) == IF readerPc[g] = "pong" THEN 1 ELSE 0

ContextsEnded(g) ==
    /\ readerPc[g] = "done"
    /\ writerPc[g] \in {"done", "failed"}

\* C24 as stated: once disconnect() has returned, the reader and the writer of
\* the connection it closed eventually end, whatever the peer does.
C24_ContextsEndAfterDisconnect ==
    \A g \in Gens :
        (DisconnectedSinceConnect /\ readerPc[g] # "unborn") ~> ContextsEnded(g)

\* every thread of generation g has ended: the connection thread has
\* returned, and the reader and writer have ended or were never spawned
GenerationEnded(g) ==
    /\ connPc[g] \in {"ret_ok", "ret_err"}
    /\ readerPc[g] \in {"unborn", "done"}
    /\ writerPc[g] \in {"unborn", "done", "failed"}

\* C25 as stated: once connect() has been called a second time, the threads
\* of the first connection eventually end.
C25_FirstGenerationEnds == (ngen = 2) ~> GenerationEnded(1)

\* the connection of the most recent connect() call is live: its socket is
\* open, its thread has set connected and not taken the error path, and its
\* reader has not left the loop
LatestLive ==
    /\ ngen >= 1
    /\ socket[ngen] = "open"
    /\ connPc[ngen] \in {"cb_connected", "drain", "forward"}
    /\ readerPc[ngen] \in {"unborn", "recv", "pong"}
\* no disconnect() call has been made since the most recent connect()
NoDisconnectSince ==
    /\ tx = ngen
    /\ \A t \in Threads : pc[t] # "dc_send"

\* C27 as stated: whenever the connection of the most recent connect() is
\* live and disconnect() has not been called since, is_connected() is true.
C27_LatestLiveIsConnected == (LatestLive /\ NoDisconnectSince) => is_connected

\* no observer registered panics when invoked
NoObserverPanics ==
    \A i \in 1..Len(lib_event_handlers) : lib_event_handlers[i] # "panics"

\* C26 as stated: an add_event_handler call made while an event is being
\* dispatched, from inside an observer included, completes without deadlock,
\* and the dispatch in progress invokes the observers registered when it
\* began, each once (no observer panicking).
C26_AddDuringDispatch ==
    /\ lib_pc # "deadlock"
    /\ NoObserverPanics =>
          \A k \in 1..Len(lib_raised) :
              DispatchOver(k) =>
                  CallsOf(k) = InOrderOnce(k, lib_raised[k][2], lib_raised[k][1])

\* thread th is in lock() on a Mutex some thread holds
Blocked(th) ==
    /\ Locking(th)
    /\ LockOp(th).op = "lock"
    /\ lockOwner[LockOp(th).lock] # NoThread
\* the thread holding the Mutex th is in lock() on
Blocker(th) == lockOwner[LockOp(th).lock]
\* the threads of S wait on one another: each is in lock() on a Mutex held by
\* a thread of S
CyclicWait(S) == S # {} /\ \A th \in S : Blocked(th) /\ Blocker(th) \in S

\* C28: with callers running connect, send, is_connected and disconnect, and
\* connection and reader threads running, no set of threads waits cyclically
\* on the Mutexes of tx, connected and event_callback.
C28_NoCyclicWait == \A S \in SUBSET LockThreads : ~CyclicWait(S)

\* disconnect holds tx and connected while one thread waits for tx and the
\* error closure, holding event_callback, waits for connected
C28_Witness ==
    \E a \in Threads, b \in Threads, c \in ConnThreads :
        /\ a # b
        /\ lockOwner = [l \in Locks |-> IF l = "event_callback" THEN c ELSE a]
        /\ lockPc[a].routine = "disconnect"
        /\ Blocked(b) /\ Blocker(b) = a /\ LockOp(b).lock = "tx"
        /\ Blocked(c) /\ Blocker(c) = a /\ LockOp(c).lock = "connected"

=============================================================================
